---- MODULE Spec2Model ----
(***************************************************************************)
(* The LLL back end of the compiler: LLLnode construction (parser.py),     *)
(* compile_to_assembly and assembly_to_evm (compile_lll.py).               *)
(*                                                                         *)
(* A Python int is unbounded and 2**256 does not fit a machine integer, so *)
(* the value of an integer literal is held as a sign and a magnitude, the  *)
(* magnitude being its base-256 digits, most significant first, without a  *)
(* leading zero digit (zero is the empty sequence).  Heights, positions    *)
(* and the symbol counter are ordinary integers.                           *)
(***************************************************************************)
EXTENDS Integers, Sequences, FiniteSets, TLC

VARIABLES
    next_symbol,   \* next_symbol[0], the process-wide symbol counter
    default_withargs, \* the one dict object behind the default argument withargs={}
    call,          \* the arguments of the last compile_to_assembly call
    result,        \* what that call and assembly_to_evm produced
    threads        \* the threads that call mksymbol: where each is in it

vars == <<next_symbol, default_withargs, call, result, threads>>

----------------------------------------------------------------------------
(* Python integers *)

Radix == 256
WordBytes == 32

Zeros(n) == [i \in 1..n |-> 0]

Strip(d) ==
    LET nz == {i \in 1..Len(d) : d[i] # 0}
    IN  IF nz = {} THEN <<>>
        ELSE SubSeq(d, CHOOSE i \in nz : \A j \in nz : i <= j, Len(d))

PyInt(neg, mag) == [neg |-> neg /\ Strip(mag) # <<>>, mag |-> Strip(mag)]

RECURSIVE Digits(_)
Digits(n) == IF n = 0 THEN <<>> ELSE Append(Digits(n \div Radix), n % Radix)

PyNum(n) == IF n < 0 THEN PyInt(TRUE, Digits(-n)) ELSE PyInt(FALSE, Digits(n))

RECURSIVE MagValue(_)
MagValue(d) == IF d = <<>> THEN 0 ELSE MagValue(SubSeq(d, 1, Len(d) - 1)) * Radix + d[Len(d)]

\* the machine integer of a small Python int
Small(x) == IF x.neg THEN -MagValue(x.mag) ELSE MagValue(x.mag)

MagLess(a, b) ==
    \/ Len(a) < Len(b)
    \/ /\ Len(a) = Len(b)
       /\ \E i \in 1..Len(a) : a[i] < b[i] /\ \A j \in 1..(i - 1) : a[j] = b[j]

\* x < y and x <= y on Python ints
Less(x, y) ==
    IF x.neg # y.neg THEN x.neg
    ELSE IF x.neg THEN MagLess(y.mag, x.mag) ELSE MagLess(x.mag, y.mag)

LessEq(x, y) == Less(x, y) \/ x = y

Neg(x) == PyInt(~x.neg, x.mag)

\* 2**255 and 2**256
Pow2_255 == PyInt(FALSE, <<128>> \o Zeros(WordBytes - 1))
Pow2_256 == PyInt(FALSE, <<1>> \o Zeros(WordBytes))

\* d + 1 on a fixed number of digits, most significant first (the carry out is dropped)
RECURSIVE Incr(_)
Incr(d) ==
    IF d = <<>> THEN <<>>
    ELSE IF d[Len(d)] < Radix - 1
         THEN [d EXCEPT ![Len(d)] = @ + 1]
         ELSE Append(Incr(SubSeq(d, 1, Len(d) - 1)), 0)

\* x % 2**256: the low 32 digits, two's complement for a negative x
Mod2_256(x) ==
    LET padded == Zeros(WordBytes) \o x.mag
        low == SubSeq(padded, Len(padded) - WordBytes + 1, Len(padded))
    IN  IF ~x.neg THEN PyInt(FALSE, low)
        ELSE PyInt(FALSE, Incr([i \in 1..WordBytes |-> (Radix - 1) - low[i]]))

\* x > 0, x % 256 and x // 256 as num_to_bytearray uses them
Positive(x) == ~x.neg /\ x.mag # <<>>
Mod256(x) == x.mag[Len(x.mag)]
FloorDiv256(x) == PyInt(FALSE, SubSeq(x.mag, 1, Len(x.mag) - 1))

\* the bytes of x least significant first, as o.append in place of
\* o.insert(0, ...) would give them
num_to_bytearray_lsb(x) == [i \in 1..Len(x.mag) |-> x.mag[Len(x.mag) + 1 - i]]

RECURSIVE num_to_bytearray(_)
num_to_bytearray(x) ==
    IF ~Positive(x) THEN <<>>
    ELSE Append(num_to_bytearray(FloorDiv256(x)), Mod256(x))

PUSH_OFFSET == 95
DUP_OFFSET == 127
SWAP_OFFSET == 143

----------------------------------------------------------------------------
(* The opcode table: mnemonic -> <<byte, arity, valency, base gas>> *)

opcodes ==
    [ STOP     |-> <<0, 0, 0, 0>>,
      ADD      |-> <<1, 2, 1, 3>>,
      SUB      |-> <<3, 2, 1, 3>>,
      LT       |-> <<16, 2, 1, 3>>,
      GT       |-> <<17, 2, 1, 3>>,
      EQ       |-> <<20, 2, 1, 3>>,
      ISZERO   |-> <<21, 1, 1, 3>>,
      CODECOPY |-> <<57, 3, 0, 3>>,
      POP      |-> <<80, 1, 0, 2>>,
      MLOAD    |-> <<81, 1, 1, 3>>,
      MSTORE   |-> <<82, 2, 0, 3>>,
      JUMP     |-> <<86, 1, 0, 8>>,
      JUMPI    |-> <<87, 2, 0, 10>>,
      PC       |-> <<88, 0, 1, 2>>,
      JUMPDEST |-> <<91, 0, 0, 1>> ]

pseudo_opcodes ==
    [ CLAMP         |-> <<-1, 3, 1, 70>>,
      CLAMPLT       |-> <<-1, 2, 1, 25>>,
      CLAMP_NONZERO |-> <<-1, 1, 1, 19>> ]

\* str.upper() on the names the trees use
upper(s) ==
    LET m == [ stop |-> "STOP", add |-> "ADD", sub |-> "SUB", lt |-> "LT", gt |-> "GT",
               eq |-> "EQ", iszero |-> "ISZERO", codecopy |-> "CODECOPY", pop |-> "POP",
               mload |-> "MLOAD", mstore |-> "MSTORE", jump |-> "JUMP", jumpi |-> "JUMPI",
               pc |-> "PC", jumpdest |-> "JUMPDEST", clamp |-> "CLAMP",
               clamplt |-> "CLAMPLT", clamp_nonzero |-> "CLAMP_NONZERO" ]
    IN  IF s \in DOMAIN m THEN m[s] ELSE s

----------------------------------------------------------------------------
(* LLL nodes.  oid is the identity of the node object where it matters: a  *)
(* `with` keys withargs by the node object of its first child.             *)

IntNode(x) == [t |-> "int", s |-> "", v |-> x, oid |-> 0, args |-> <<>>]
StrNode(s, args) == [t |-> "str", s |-> s, v |-> PyNum(0), oid |-> 0, args |-> args]
NameNode(s, oid) == [t |-> "str", s |-> s, v |-> PyNum(0), oid |-> oid, args |-> <<>>]

Rejected == -1

\* the if case without the test on the valency of the first child
if_valency_unchecked_test(n, vals) ==
    IF n = 3 /\ vals[2] # vals[3] THEN Rejected
    ELSE IF n = 2 /\ vals[2] # 0 THEN Rejected
    ELSE IF n \notin {2, 3} THEN Rejected
    ELSE vals[2]

\* the if case of LLLnode.__init__: args[0] of a node without children is
\* an IndexError
if_valency(n, vals) ==
    IF n = 3 /\ vals[2] # vals[3] THEN Rejected
    ELSE IF n = 2 /\ vals[2] # 0 THEN Rejected
    ELSE IF n = 0 \/ vals[1] = 0 THEN Rejected
    ELSE IF n \notin {2, 3} THEN Rejected
    ELSE vals[2]

\* LLLnode.__init__ on children already constructed: the valency it sets,
\* or Rejected where it raises
LLLnode_init(value, args, vals) ==
    LET n == Len(args) IN
    IF value.t = "int" THEN 1
    ELSE IF upper(value.s) \in DOMAIN opcodes \/ upper(value.s) \in DOMAIN pseudo_opcodes
    THEN LET record == IF upper(value.s) \in DOMAIN opcodes
                       THEN opcodes[upper(value.s)]
                       ELSE pseudo_opcodes[upper(value.s)]
         IN  IF n # record[2] THEN Rejected
             ELSE IF \E i \in 1..n : vals[i] = 0 THEN Rejected
             ELSE record[3]
    ELSE IF value.s = "if" THEN if_valency(n, vals)
    ELSE IF value.s = "with"
    THEN IF n # 3 THEN Rejected
         ELSE IF Len(args[1].args) # 0 \/ args[1].t # "str" THEN Rejected
         ELSE IF vals[2] = 0 THEN Rejected
         ELSE vals[3]
    ELSE IF value.s = "repeat"
    THEN IF n < 3 THEN Rejected
         ELSE IF Len(args[3].args) # 0 \/ args[3].t # "int" \/ ~Positive(args[3].v)
         THEN Rejected
         ELSE IF vals[1] = 0 THEN Rejected
         ELSE IF vals[2] = 0 THEN Rejected
         ELSE IF n < 4 THEN Rejected
         ELSE IF vals[4] # 0 THEN Rejected
         ELSE 0
    ELSE IF value.s = "seq"
    THEN IF n > 0 THEN vals[n] ELSE 0
    ELSE 1

\* the valency of the tree built by LLLnode.from_list, Rejected where the
\* construction of the node or of one of its descendants raises
RECURSIVE valency(_)
valency(code) ==
    LET vals == [i \in 1..Len(code.args) |-> valency(code.args[i])] IN
    IF \E i \in 1..Len(code.args) : vals[i] = Rejected THEN Rejected
    ELSE LLLnode_init(code, code.args, vals)

----------------------------------------------------------------------------
(* Assembly items: a mnemonic, 'PUSH'+str(n), 'DUP'+str(n), 'SWAP'+str(n),  *)
(* an integer, a symbol '_sym_'+str(n), 'BLANK', or a nested list.          *)

Op(m)    == [k |-> m, n |-> 0, l |-> <<>>]
Push(n)  == [k |-> "PUSH", n |-> n, l |-> <<>>]
Dup(n)   == [k |-> "DUP", n |-> n, l |-> <<>>]
Swap(n)  == [k |-> "SWAP", n |-> n, l |-> <<>>]
Byte(b)  == [k |-> "int", n |-> b, l |-> <<>>]
Sym(n)   == [k |-> "_sym_", n |-> n, l |-> <<>>]
Blank    == [k |-> "BLANK", n |-> 0, l |-> <<>>]
List(l)  == [k |-> "list", n |-> 0, l |-> l]

Bytes(bs) == [i \in 1..Len(bs) |-> Byte(bs[i])]

is_symbol(i) == i.k = "_sym_"

\* next_symbol[0] += 1; return '_sym_'+str(next_symbol[0])
mksymbol(st) == [sym |-> Sym(st.sym + 1), st |-> [st EXCEPT !.sym = @ + 1]]

----------------------------------------------------------------------------
(* Dicts.  A key of withargs is a str (oid 0) or a node object (oid > 0):   *)
(* LLLnode defines neither __eq__ nor __hash__, so a node key is equal to   *)
(* itself only and to no str.                                               *)

StrKey(s) == [name |-> s, oid |-> 0]
NodeKey(node) == [name |-> node.s, oid |-> node.oid]
EmptyDict == <<>>
Put(d, key, v) == [x \in DOMAIN d \cup {key} |-> IF x = key THEN v ELSE d[x]]
Del(d, key) == [x \in DOMAIN d \ {key} |-> d[x]]

\* break_dest: None, or the tuple (dest, break_height)
None == [some |-> FALSE, dest |-> Sym(0), height |-> 0]
BreakDest(dest, height) == [some |-> TRUE, dest |-> dest, height |-> height]

\* The outcome of a call: the list returned or the exception raised, with the
\* state it leaves: st.sym the symbol counter, st.D the default dict, and own
\* the dict the caller passed as withargs when that is not the default dict.
Ret(o, own, st) == [o |-> o, err |-> "", own |-> own, st |-> st]
Raise(e, own, st) == [o |-> <<>>, err |-> e, own |-> own, st |-> st]

\* the dict withargs refers to, and the state after a store into it
Withargs(wref, own, st) == IF wref = "default" THEN st.D ELSE own
OwnAfter(wref, own, d) == IF wref = "default" THEN own ELSE d
StAfter(wref, st, d) == IF wref = "default" THEN [st EXCEPT !.D = d] ELSE st

Reverse(s) == [i \in 1..Len(s) |-> s[Len(s) + 1 - i]]

MaxDup == 16

----------------------------------------------------------------------------
(* compile_to_assembly, case by case *)

\* an integer literal
\* the literal without the reduction modulo 2**256
literal_asm_unsigned(value) ==
    LET bytez == IF num_to_bytearray(value) = <<>> THEN <<0>> ELSE num_to_bytearray(value)
    IN  <<Push(Len(bytez))>> \o Bytes(bytez)

literal_asm(value) ==
    LET m == Mod2_256(value)
        bytez == IF num_to_bytearray(m) = <<>> THEN <<0>> ELSE num_to_bytearray(m)
    IN  <<Push(Len(bytez))>> \o Bytes(bytez)

\* the range test with < in place of <= at the low end
literal_in_range_inclusive(value) ==
    IF Less(value, Neg(Pow2_255)) THEN "Value too low"
    ELSE IF ~Less(value, Pow2_256) THEN "Value too high"
    ELSE ""

literal_range(value) ==
    IF LessEq(value, Neg(Pow2_255)) THEN "Value too low"
    ELSE IF ~Less(value, Pow2_256) THEN "Value too high"
    ELSE ""

\* a name found in withargs
\* the depth test one deeper
variable_too_deep_17(gap) == gap > MaxDup + 1

variable_too_deep(gap) == gap > MaxDup

variable_asm(gap) == <<Dup(gap)>>

\* the two-clause if without its closing label
if2_asm_no_label(test, end_symbol, body) ==
    test \o <<Op("ISZERO"), end_symbol, Op("JUMPI")>> \o body \o <<Op("JUMPDEST")>>

if2_asm(test, end_symbol, body) ==
    test \o <<Op("ISZERO"), end_symbol, Op("JUMPI")>> \o body
         \o <<end_symbol, Op("JUMPDEST")>>

\* the three-clause if closed by mid_symbol in place of end_symbol
if3_asm_mid_twice(test, mid_symbol, end_symbol, then, else) ==
    test \o <<Op("ISZERO"), mid_symbol, Op("JUMPI")>> \o then
         \o <<end_symbol, Op("JUMP"), mid_symbol, Op("JUMPDEST")>> \o else
         \o <<mid_symbol, Op("JUMPDEST")>>

if3_asm(test, mid_symbol, end_symbol, then, else) ==
    test \o <<Op("ISZERO"), mid_symbol, Op("JUMPI")>> \o then
         \o <<end_symbol, Op("JUMP"), mid_symbol, Op("JUMPDEST")>> \o else
         \o <<end_symbol, Op("JUMPDEST")>>

repeat_asm(loops, start, end, arg1, arg2) ==
    <<Push(Len(loops))>> \o Bytes(loops) \o arg1
        \o <<Push(1), Byte(0), Dup(2), Op("MSTORE"), start, Op("JUMPDEST")>>
        \o arg2
        \o <<Dup(1), Op("MLOAD"), Push(1), Byte(1), Op("ADD"), Dup(1), Dup(3), Op("MSTORE")>>
        \o <<Dup(3), Op("EQ"), Op("ISZERO"), start, Op("JUMPI"), end, Op("JUMPDEST"),
             Op("POP"), Op("POP")>>

lll_asm(begincode, endcode, inner, dest) ==
    <<endcode, Op("JUMP"), begincode, Blank>> \o <<List(inner)>>
        \o <<endcode, Op("JUMPDEST"), begincode, endcode, Op("SUB"), begincode>>
        \o dest
        \o <<Op("CODECOPY"), begincode, endcode, Op("SUB")>>

clamplt_asm(a, bound) ==
    a \o bound \o <<Dup(2)>> \o <<Op("LT"), Op("ISZERO"), Op("PC"), Op("JUMPI")>>

clamp_asm(lo, a, hi) ==
    lo \o a \o <<Dup(1)>> \o hi
       \o <<Swap(1), Op("GT"), Op("PC"), Op("JUMPI")>>
       \o <<Dup(1), Swap(2), Op("LT"), Op("PC"), Op("JUMPI")>>

clamp_nonzero_asm(a) == a \o <<Dup(1), Op("ISZERO"), Op("PC"), Op("JUMPI")>>

\* ['POP'] * [height - break_height]: a list times a list is a TypeError
break_asm(dest, n) == "TypeError"

RECURSIVE compile_to_assembly(_, _, _, _, _, _)

\* the children `nodes` lowered in order at `heights`, their lists concatenated
RECURSIVE compile_each(_, _, _, _, _, _)
compile_each(nodes, heights, wref, own, break_dest, st) ==
    IF nodes = <<>> THEN Ret(<<>>, own, st)
    ELSE LET r == compile_to_assembly(Head(nodes), wref, own, break_dest, Head(heights), st)
         IN  IF r.err # "" THEN r
             ELSE LET rest == compile_each(Tail(nodes), Tail(heights), wref, r.own,
                                           break_dest, r.st)
                  IN  IF rest.err # "" THEN rest
                      ELSE Ret(r.o \o rest.o, rest.own, rest.st)

opcode_heights(n, height) == [i \in 1..n |-> height + (i - 1)]

compile_opcode(code, wref, own, break_dest, height, st) ==
    LET r == compile_each(Reverse(code.args), opcode_heights(Len(code.args), height),
                          wref, own, break_dest, st)
    IN  IF r.err # "" THEN r ELSE Ret(Append(r.o, Op(upper(code.s))), r.own, r.st)

compile_if2(code, wref, own, break_dest, height, st) ==
    LET r0 == compile_to_assembly(code.args[1], wref, own, break_dest, height, st) IN
    IF r0.err # "" THEN r0 ELSE
    LET end_symbol == mksymbol(r0.st)
        r1 == compile_to_assembly(code.args[2], wref, r0.own, break_dest, height,
                                  end_symbol.st)
    IN  IF r1.err # "" THEN r1
        ELSE Ret(if2_asm(r0.o, end_symbol.sym, r1.o), r1.own, r1.st)

compile_if3(code, wref, own, break_dest, height, st) ==
    LET r0 == compile_to_assembly(code.args[1], wref, own, break_dest, height, st) IN
    IF r0.err # "" THEN r0 ELSE
    LET mid_symbol == mksymbol(r0.st)
        end_symbol == mksymbol(mid_symbol.st)
        r1 == compile_to_assembly(code.args[2], wref, r0.own, break_dest, height,
                                  end_symbol.st)
    IN  IF r1.err # "" THEN r1 ELSE
    LET r2 == compile_to_assembly(code.args[3], wref, r1.own, break_dest, height, r1.st)
    IN  IF r2.err # "" THEN r2
        ELSE Ret(if3_asm(r0.o, mid_symbol.sym, end_symbol.sym, r1.o, r2.o), r2.own, r2.st)

compile_repeat(code, wref, own, break_dest, height, st) ==
    IF Len(code.args) < 1 THEN Raise("IndexError", own, st)
    ELSE IF code.args[1].t = "str" THEN Raise("TypeError", own, st) ELSE
    LET loops == IF num_to_bytearray(code.args[1].v) = <<>> THEN <<0>>
                 ELSE num_to_bytearray(code.args[1].v)
        start == mksymbol(st)
        end == mksymbol(start.st)
    IN  IF Len(code.args) < 2 THEN Raise("IndexError", own, end.st) ELSE
    \* compile_to_assembly(code.args[1]): the default dict, no break_dest, height 0
    LET r1 == compile_to_assembly(code.args[2], "default", EmptyDict, None, 0, end.st) IN
    IF r1.err # "" THEN Raise(r1.err, own, r1.st)
    ELSE IF Len(code.args) < 3 THEN Raise("IndexError", own, r1.st) ELSE
    LET r2 == compile_to_assembly(code.args[3], wref, own, BreakDest(end.sym, height + 1),
                                  height + 1, r1.st)
    IN  IF r2.err # "" THEN r2
        ELSE Ret(repeat_asm(loops, start.sym, end.sym, r1.o, r2.o), r2.own, r2.st)

compile_break(code, wref, own, break_dest, height, st) ==
    IF ~break_dest.some THEN Raise("Invalid break", own, st)
    ELSE Raise(break_asm(break_dest.dest, height - break_dest.height), own, st)

\* the end of a `with`: if old: withargs[name] = old, else: del withargs[name]
with_exit(d, key, hadOld, old) ==
    IF hadOld /\ old # 0 THEN [err |-> "", d |-> Put(d, key, old)]
    ELSE IF key \in DOMAIN d THEN [err |-> "", d |-> Del(d, key)]
    ELSE [err |-> "KeyError", d |-> d]

compile_with(code, wref, own, break_dest, height, st) ==
    IF Len(code.args) < 2 THEN Raise("IndexError", own, st) ELSE
    LET r1 == compile_to_assembly(code.args[2], wref, own, break_dest, height, st) IN
    IF r1.err # "" THEN r1 ELSE
    LET key == NodeKey(code.args[1])
        d1 == Withargs(wref, r1.own, r1.st)
        hadOld == key \in DOMAIN d1
        old == IF hadOld THEN d1[key] ELSE 0
        d2 == Put(d1, key, height)
        own2 == OwnAfter(wref, r1.own, d2)
        st2 == StAfter(wref, r1.st, d2)
    IN  IF Len(code.args) < 3 THEN Raise("IndexError", own2, st2) ELSE
    LET r2 == compile_to_assembly(code.args[3], wref, own2, break_dest, height + 1, st2) IN
    IF r2.err # "" THEN r2 ELSE
    LET x == with_exit(Withargs(wref, r2.own, r2.st), key, hadOld, old) IN
    IF x.err # "" THEN Raise(x.err, r2.own, r2.st)
    ELSE Ret(r1.o \o r2.o, OwnAfter(wref, r2.own, x.d), StAfter(wref, r2.st, x.d))

\* the first child of lll lowered with the break_dest of the caller
compile_lll_inherits_break_dest(code, wref, own, break_dest, height, st) ==
    LET begincode == mksymbol(st)
        endcode == mksymbol(begincode.st)
    IN  IF Len(code.args) < 1 THEN Raise("IndexError", own, endcode.st) ELSE
    LET r0 == compile_to_assembly(code.args[1], "own", EmptyDict, break_dest, 0,
                                  endcode.st) IN
    IF r0.err # "" THEN Raise(r0.err, own, r0.st)
    ELSE IF Len(code.args) < 2 THEN Raise("IndexError", own, r0.st) ELSE
    LET r1 == compile_to_assembly(code.args[2], wref, own, break_dest, height, r0.st) IN
    IF r1.err # "" THEN r1
    ELSE Ret(lll_asm(begincode.sym, endcode.sym, r0.o, r1.o), r1.own, r1.st)

compile_lll(code, wref, own, break_dest, height, st) ==
    LET begincode == mksymbol(st)
        endcode == mksymbol(begincode.st)
    IN  IF Len(code.args) < 1 THEN Raise("IndexError", own, endcode.st) ELSE
    \* compile_to_assembly(code.args[0], {}, None, 0): a new dict
    LET r0 == compile_to_assembly(code.args[1], "own", EmptyDict, None, 0, endcode.st) IN
    IF r0.err # "" THEN Raise(r0.err, own, r0.st)
    ELSE IF Len(code.args) < 2 THEN Raise("IndexError", own, r0.st) ELSE
    LET r1 == compile_to_assembly(code.args[2], wref, own, break_dest, height, r0.st) IN
    IF r1.err # "" THEN r1
    ELSE Ret(lll_asm(begincode.sym, endcode.sym, r0.o, r1.o), r1.own, r1.st)

compile_seq(code, wref, own, break_dest, height, st) ==
    compile_each(code.args, [i \in 1..Len(code.args) |-> height], wref, own,
                 break_dest, st)

clamplt_heights(height) == <<height, height + 1>>

compile_clamplt(code, wref, own, break_dest, height, st) ==
    LET h == clamplt_heights(height)
        r0 == compile_to_assembly(code.args[1], wref, own, break_dest, h[1], st) IN
    IF r0.err # "" THEN r0 ELSE
    LET r1 == compile_to_assembly(code.args[2], wref, r0.own, break_dest, h[2], r0.st) IN
    IF r1.err # "" THEN r1
    ELSE Ret(clamplt_asm(r0.o, r1.o), r1.own, r1.st)

clamp_heights(height) == <<height, height, height + 2>>

compile_clamp(code, wref, own, break_dest, height, st) ==
    LET h == clamp_heights(height)
        r0 == compile_to_assembly(code.args[1], wref, own, break_dest, h[1], st) IN
    IF r0.err # "" THEN r0 ELSE
    LET r1 == compile_to_assembly(code.args[2], wref, r0.own, break_dest, h[2], r0.st) IN
    IF r1.err # "" THEN r1 ELSE
    LET r2 == compile_to_assembly(code.args[3], wref, r1.own, break_dest, h[3], r1.st) IN
    IF r2.err # "" THEN r2
    ELSE Ret(clamp_asm(r0.o, r1.o, r2.o), r2.own, r2.st)

compile_clamp_nonzero(code, wref, own, break_dest, height, st) ==
    LET r == compile_to_assembly(code.args[1], wref, own, break_dest, height, st) IN
    IF r.err # "" THEN r ELSE Ret(clamp_nonzero_asm(r.o), r.own, r.st)

compile_to_assembly(code, wref, own, break_dest, height, st) ==
    LET withargs == Withargs(wref, own, st) IN
    IF code.t = "str" /\ upper(code.s) \in DOMAIN opcodes
    THEN compile_opcode(code, wref, own, break_dest, height, st)
    ELSE IF code.t = "int"
    THEN IF literal_range(code.v) # "" THEN Raise(literal_range(code.v), own, st)
         ELSE Ret(literal_asm(code.v), own, st)
    ELSE IF StrKey(code.s) \in DOMAIN withargs
    THEN IF variable_too_deep(height - withargs[StrKey(code.s)])
         THEN Raise("With statement too deep", own, st)
         ELSE Ret(variable_asm(height - withargs[StrKey(code.s)]), own, st)
    ELSE IF code.s = "pass" THEN Ret(<<>>, own, st)
    ELSE IF code.s = "if" /\ Len(code.args) = 2
    THEN compile_if2(code, wref, own, break_dest, height, st)
    ELSE IF code.s = "if" /\ Len(code.args) = 3
    THEN compile_if3(code, wref, own, break_dest, height, st)
    ELSE IF code.s = "repeat" THEN compile_repeat(code, wref, own, break_dest, height, st)
    ELSE IF code.s = "break" THEN compile_break(code, wref, own, break_dest, height, st)
    ELSE IF code.s = "with" THEN compile_with(code, wref, own, break_dest, height, st)
    ELSE IF code.s = "lll" THEN compile_lll(code, wref, own, break_dest, height, st)
    ELSE IF code.s = "seq" THEN compile_seq(code, wref, own, break_dest, height, st)
    ELSE IF code.s = "clamplt"
    THEN compile_clamplt(code, wref, own, break_dest, height, st)
    ELSE IF code.s = "clamp" THEN compile_clamp(code, wref, own, break_dest, height, st)
    ELSE IF code.s = "clamp_nonzero"
    THEN compile_clamp_nonzero(code, wref, own, break_dest, height, st)
    ELSE Raise("Weird code element", own, st)

----------------------------------------------------------------------------
(* assembly_to_evm *)

\* bytes([...]) raises ValueError unless every element is in range(256)
InByte(b) == b >= 0 /\ b < Radix

\* assembly[i + 1] == 'JUMPDEST' or assembly[i + 1] == 'BLANK'
is_definition(assembly, i) == assembly[i + 1].k = "JUMPDEST" \/ assembly[i + 1].k = "BLANK"

\* the size of a PUSH1 and its one byte
symbol_use_size_push1 == 1 + 1

symbol_use_size == 3

RECURSIVE assembly_to_evm(_)

\* one step of the first loop: posmap, sub_assemblies, codes and pos after item i
\* (sizes keeps what each item added to pos)
layout_item(assembly, i, acc) ==
    LET item == assembly[i] IN
    IF is_symbol(item)
    THEN IF i + 1 > Len(assembly) THEN [acc EXCEPT !.err = "IndexError"]
         ELSE IF is_definition(assembly, i)
         THEN [acc EXCEPT !.posmap = Put(@, item.n, acc.pos), !.sizes = Append(@, 0)]
         ELSE [acc EXCEPT !.pos = @ + symbol_use_size,
                          !.sizes = Append(@, symbol_use_size)]
    ELSE IF item.k = "BLANK" THEN [acc EXCEPT !.sizes = Append(@, 0)]
    ELSE IF item.k = "list"
    THEN LET c == assembly_to_evm(item.l) IN
         IF c.err # "" THEN [acc EXCEPT !.err = c.err]
         ELSE [acc EXCEPT !.sub_assemblies = Append(@, item),
                          !.codes = Append(@, c.o),
                          !.pos = @ + Len(c.o),
                          !.sizes = Append(@, Len(c.o))]
    ELSE [acc EXCEPT !.pos = @ + 1, !.sizes = Append(@, 1)]

RECURSIVE layout(_, _, _)
layout(assembly, i, acc) ==
    IF i > Len(assembly) \/ acc.err # "" THEN acc
    ELSE layout(assembly, i + 1, layout_item(assembly, i, acc))

\* PUSH2 with the low byte first
symbol_use_bytes_lsb(pos) == <<PUSH_OFFSET + 2, pos % Radix, pos \div Radix>>

symbol_use_bytes(pos) == <<PUSH_OFFSET + 2, pos \div Radix, pos % Radix>>

\* one step of the second loop: the bytes item i adds to o, or the exception
emit_item(assembly, i, lay) ==
    LET item == assembly[i]
        one(b) == IF InByte(b) THEN [err |-> "", b |-> <<b>>]
                  ELSE [err |-> "ValueError", b |-> <<>>]
    IN
    IF is_symbol(item)
    THEN IF i + 1 > Len(assembly) THEN [err |-> "IndexError", b |-> <<>>]
         ELSE IF ~is_definition(assembly, i)
         THEN IF item.n \notin DOMAIN lay.posmap THEN [err |-> "KeyError", b |-> <<>>]
              ELSE IF \E k \in 1..3 : ~InByte(symbol_use_bytes(lay.posmap[item.n])[k])
              THEN [err |-> "ValueError", b |-> <<>>]
              ELSE [err |-> "", b |-> symbol_use_bytes(lay.posmap[item.n])]
         ELSE [err |-> "", b |-> <<>>]
    ELSE IF item.k = "int" THEN one(item.n)
    ELSE IF item.k \in DOMAIN opcodes THEN one(opcodes[item.k][1])
    ELSE IF item.k = "PUSH" THEN one(PUSH_OFFSET + item.n)
    ELSE IF item.k = "DUP" THEN one(DUP_OFFSET + item.n)
    ELSE IF item.k = "SWAP" THEN one(SWAP_OFFSET + item.n)
    ELSE IF item.k = "BLANK" THEN [err |-> "", b |-> <<>>]
    ELSE IF item.k = "list"
    THEN LET hits == {j \in 1..Len(lay.sub_assemblies) : lay.sub_assemblies[j] = item}
         IN  IF hits = {} THEN [err |-> "", b |-> <<>>]
             ELSE [err |-> "",
                   b |-> lay.codes[CHOOSE j \in hits : \A j2 \in hits : j <= j2]]
    ELSE [err |-> "Weird symbol in assembly", b |-> <<>>]

RECURSIVE emit(_, _, _, _)
emit(assembly, i, lay, acc) ==
    IF i > Len(assembly) \/ acc.err # "" THEN acc
    ELSE LET e == emit_item(assembly, i, lay) IN
         emit(assembly, i + 1, lay,
              IF e.err # "" THEN [acc EXCEPT !.err = e.err]
              ELSE [acc EXCEPT !.o = @ \o e.b, !.chunks = Append(@, e.b)])

\* o, or the exception raised; with posmap, and per item what the first loop
\* added to pos (sizes) and what the second loop added to o (chunks)
assembly_to_evm(assembly) ==
    LET lay == layout(assembly, 1,
                      [posmap |-> EmptyDict, sub_assemblies |-> <<>>, codes |-> <<>>,
                       pos |-> 0, sizes |-> <<>>, err |-> ""])
    IN  IF lay.err # ""
        THEN [o |-> <<>>, err |-> lay.err, posmap |-> lay.posmap, sizes |-> lay.sizes,
              chunks |-> <<>>]
        ELSE LET out == emit(assembly, 1, lay, [o |-> <<>>, chunks |-> <<>>, err |-> ""])
             IN  [o |-> IF out.err = "" THEN out.o ELSE <<>>, err |-> out.err,
                  posmap |-> lay.posmap, sizes |-> lay.sizes, chunks |-> out.chunks]

----------------------------------------------------------------------------
(* gas_estimate *)

GasOk(n) == [o |-> n, err |-> ""]
GasRaise(e) == [o |-> 0, err |-> e]

RECURSIVE gas_estimate(_, _)

\* the sum of the estimates of args[idxs[i]] at depths[i], taken in that
\* order: the first exception raised ends it, an index past the end of args
\* is an IndexError
RECURSIVE gas_sum(_, _, _, _, _)
gas_sum(args, idxs, depths, i, acc) ==
    IF i > Len(idxs) THEN GasOk(acc)
    ELSE IF idxs[i] + 1 > Len(args) THEN GasRaise("IndexError")
    ELSE LET g == gas_estimate(args[idxs[i] + 1], depths[i]) IN
         IF g.err # "" THEN g
         ELSE gas_sum(args, idxs, depths, i + 1, acc + g.o)

\* the estimates added to a constant
gas_plus(g, n) == IF g.err # "" THEN g ELSE GasOk(g.o + n)

max(a, b) == IF a >= b THEN a ELSE b

gas_opcode(code, depth) ==
    LET n == Len(code.args)
        o == gas_sum(code.args, [i \in 1..n |-> n - i], [i \in 1..n |-> depth + i - 1], 1, 0)
        nonzero(k) == ~(code.args[k + 1].t = "int" /\ code.args[k + 1].v = PyNum(0))
    IN  IF o.err # "" THEN o
        ELSE IF upper(code.s) = "CALL" /\ n < 3 THEN GasRaise("IndexError")
        ELSE IF upper(code.s) = "SSTORE" /\ n < 2 THEN GasRaise("IndexError")
        ELSE GasOk(o.o + opcodes[upper(code.s)][4]
                   + (IF upper(code.s) = "CALL" /\ nonzero(2) THEN 34000 ELSE 0)
                   + (IF upper(code.s) = "SSTORE" /\ nonzero(1) THEN 15000 ELSE 0))

gas_if(code, depth) ==
    IF Len(code.args) = 2
    THEN gas_plus(gas_sum(code.args, <<0, 1>>, <<depth + 1, depth + 1>>, 1, 0), 30)
    ELSE IF Len(code.args) = 3
    THEN LET test == gas_estimate(code.args[1], depth + 1)
             then == gas_estimate(code.args[2], depth + 1)
             else == gas_estimate(code.args[3], depth + 1)
         IN  IF test.err # "" THEN test
             ELSE IF then.err # "" THEN then
             ELSE IF else.err # "" THEN else
             ELSE GasOk(test.o + max(then.o, else.o) + 30)
    ELSE GasRaise("If statement must have 2 or 3 child elements")

\* gas_estimate(code.args[1]) + gas_estimate(code.args[3]) + 20
gas_with(code, depth) ==
    gas_plus(gas_sum(code.args, <<1, 3>>, <<depth + 1, depth + 1>>, 1, 0), 20)

\* (gas_estimate(code.args[2]) + 50) * code.args[0].value + 30; a str times
\* an int is a str, and a str plus 30 is a TypeError
gas_repeat(code, depth) ==
    LET body == gas_sum(code.args, <<2>>, <<depth + 1>>, 1, 0) IN
    IF body.err # "" THEN body
    ELSE IF code.args[1].t # "int" THEN GasRaise("TypeError")
    ELSE GasOk((body.o + 50) * Small(code.args[1].v) + 30)

gas_estimate(code, depth) ==
    IF code.t = "int" THEN GasOk(3)
    ELSE IF upper(code.s) \in DOMAIN opcodes THEN gas_opcode(code, depth)
    ELSE IF code.s = "if" THEN gas_if(code, depth)
    ELSE IF code.s = "with" THEN gas_with(code, depth)
    ELSE IF code.s = "clamp"
    THEN gas_plus(gas_sum(code.args, <<0, 1, 2>>, <<depth + 1, depth + 1, depth + 1>>, 1, 0), 50)
    ELSE IF code.s = "clamplt"
    THEN gas_plus(gas_sum(code.args, <<0, 1>>, <<depth + 1, depth + 1>>, 1, 0), 30)
    ELSE IF code.s = "clamp_nonzero"
    THEN gas_plus(gas_sum(code.args, <<0>>, <<depth + 1>>, 1, 0), 20)
    ELSE IF code.s = "pass" THEN GasOk(0)
    ELSE IF code.s = "break" THEN GasOk(20 + opcodes["POP"][4] * depth)
    ELSE IF code.s = "repeat" THEN gas_repeat(code, depth)
    ELSE IF code.s = "seq"
    THEN LET n == Len(code.args) IN
         gas_sum(code.args, [i \in 1..n |-> i - 1], [i \in 1..n |-> depth + 1], 1, 0)
    ELSE GasRaise("Gas estimate failed")

----------------------------------------------------------------------------
(* The trees and the environments the calls are made with *)

MaxLitBytes == 33
MaxHeight == 17
MaxSymbols == 2

I(n) == IntNode(PyNum(n))
S(s) == StrNode(s, <<>>)

\* 256**k - 1, 256**k and 256**(k-1) + 1, the values around 2**255, and the
\* negatives of them all
LitValues ==
    LET pos == UNION {{PyInt(FALSE, [i \in 1..k |-> Radix - 1]),
                       PyInt(FALSE, <<1>> \o Zeros(k)),
                       PyInt(FALSE, <<1>> \o Zeros(k - 1) \o <<1>>)} : k \in 1..MaxLitBytes}
               \cup {PyNum(n) : n \in {0, 1, 2, 3, 5, 7, 10, 42}}
               \cup {Pow2_255,
                     PyInt(FALSE, <<127>> \o [i \in 1..(WordBytes - 1) |-> Radix - 1]),
                     PyInt(FALSE, <<128>> \o Zeros(WordBytes - 2) \o <<1>>)}
    IN  pos \cup {Neg(x) : x \in pos}

Literals == {IntNode(x) : x \in LitValues}

\* the leaves composite trees are built from
Leaves == {I(0), I(3), S("x"), S("pass"), S("break"), S("seq"), S("jumpdest")}

Over(L, names) ==
    {StrNode("add", <<a, b>>) : a \in L, b \in L}
    \cup {StrNode("iszero", <<a>>) : a \in L}
    \cup {StrNode("if", <<a, b>>) : a \in L, b \in L}
    \cup {StrNode("with", <<n, a, b>>) : n \in names, a \in L, b \in L}
    \cup {StrNode("repeat", <<a, b, c, d>>) : a \in L, b \in L, c \in {I(0), I(3)}, d \in L}
    \cup {StrNode("seq", <<a>>) : a \in L}
    \cup {StrNode("seq", <<a, b>>) : a \in L, b \in L}
    \cup {StrNode("lll", <<a>>) : a \in L}
    \cup {StrNode("lll", <<a, b>>) : a \in L, b \in L}
    \cup {StrNode("clamplt", <<a, b>>) : a \in L, b \in L}
    \cup {StrNode("clamp_nonzero", <<a>>) : a \in L}

Over3(L) ==
    {StrNode("if", <<a, b, c>>) : a \in L, b \in L, c \in L}
    \cup {StrNode("clamp", <<a, b, c>>) : a \in L, b \in L, c \in L}

Names == {NameNode("x", 1)}

\* sub-trees of depth one that the deeper trees are built from
Inner ==
    { StrNode("with", <<NameNode("x", 1), I(1), S("break")>>),
      StrNode("with", <<NameNode("x", 1), I(2), I(3)>>),
      StrNode("with", <<NameNode("x", 1), I(5), S("x")>>),
      StrNode("with", <<NameNode("x", 1), I(5), S("seq")>>),
      StrNode("add", <<S("x"), S("x")>>),
      StrNode("if", <<I(1), S("seq")>>),
      StrNode("if", <<I(1), I(2), I(3)>>),
      StrNode("repeat", <<I(0), S("x"), I(3), S("seq")>>),
      StrNode("repeat", <<I(0), I(0), I(3), S("seq")>>),
      StrNode("lll", <<S("pass"), S("jumpdest")>>),
      StrNode("lll", <<StrNode("if", <<I(1), S("seq")>>), I(0)>>),
      StrNode("clamp_nonzero", <<I(7)>>),
      StrNode("seq", <<I(1), I(2)>>),
      I(1), S("seq") }

\* the trees of the end-to-end scenarios
Scenarios ==
    { I(42),
      StrNode("seq", <<I(1), I(2)>>),
      StrNode("if", <<I(1), S("seq")>>),
      StrNode("with", <<NameNode("x", 1), I(5), StrNode("add", <<S("x"), S("x")>>)>>),
      StrNode("repeat", <<I(0), I(0), I(3), S("pass")>>),
      StrNode("clamp_nonzero", <<I(7)>>) }

\* a break in the inner body of an lll, the lll at top level, in a seq and
\* in a repeat
BreakTrees ==
    { StrNode("lll", <<S("break"), I(0)>>),
      StrNode("seq", <<StrNode("lll", <<S("break"), I(0)>>)>>),
      StrNode("repeat", <<I(0), StrNode("lll", <<S("break"), I(0)>>), I(3), S("seq")>>) }

\* clamp lo a hi on literals in every order, one of them of two bytes
ClampOperands == {0, 3, 5, 300}
ClampTrees ==
    {StrNode("clamp", <<I(lo), I(a), I(hi)>>) :
        lo \in ClampOperands, a \in ClampOperands, hi \in ClampOperands}

Candidates ==
    Literals \cup Leaves \cup Over(Leaves, {NameNode("x", 1)})
        \cup Over3({I(3), S("x"), S("seq")}) \cup Inner \cup Over(Inner, Names)
        \cup Scenarios \cup BreakTrees \cup ClampTrees

\* the trees LLLnode construction accepts
Trees == {t \in Candidates : valency(t) # Rejected}

\* the trees the calls with an explicit environment are made on
EnvTrees ==
    {t \in {S("x"), S("break"), S("pass"), I(1)}
           \cup Over({I(1), S("x"), S("break"), S("seq")}, {NameNode("x", 1)})
           \cup Over3({I(1), S("x")}) : valency(t) # Rejected}

\* entry heights: next to the frame, and at the reach of DUP16
Heights == {1, 2, MaxHeight - 1, MaxHeight}

\* withargs as a caller passes it: empty, or x bound below the entry height,
\* under the str or under the node object an enclosing with has bound
Environments(height) ==
    {EmptyDict} \cup {Put(EmptyDict, StrKey("x"), b) : b \in {0, height - 1}}
        \cup {Put(EmptyDict, NodeKey(NameNode("x", 1)), 0)}

BreakDests(height) == {None, BreakDest(Sym(0), height - 1)}

\* the trees gas_estimate is called on
GasTrees ==
    {t \in Leaves \cup Inner \cup Scenarios
            \cup Over({I(0), I(3), I(-1), S("x"), S("seq")}, Names)
            \cup Over3({I(3), S("seq")}) : valency(t) # Rejected}

\* the lists LLLnode.from_list is called on: if with no to MaxIfArgs
\* children of valency 1 and 0, and the scenarios
MaxIfArgs == 4
IfChildren == {I(1), S("seq")}
IfCandidates == {StrNode("if", args) : args \in UNION {[1..n -> IfChildren] : n \in 0..MaxIfArgs}}
ConstructCandidates == IfCandidates \cup Scenarios \cup Inner

\* the lists assembly_to_evm is called on that no lowering returns
RawItems ==
    {Push(0), Push(1), Push(WordBytes), Push(WordBytes + 1),
     Dup(0), Dup(1), Dup(MaxDup), Dup(MaxDup + 1),
     Swap(0), Swap(1), Swap(MaxDup), Swap(MaxDup + 1),
     Byte(-1), Byte(0), Byte(Radix - 1), Byte(Radix),
     Op("ADD"), Op("FOO"), Blank}
RawAssemblies ==
    {<<a>> : a \in RawItems} \cup {<<Push(1), a>> : a \in RawItems}
        \cup {<<a, Op("ADD")>> : a \in RawItems}

----------------------------------------------------------------------------
(* The process: calls of compile_to_assembly, each followed by             *)
(* assembly_to_evm on the list returned.                                   *)

NoEvm == [o |-> <<>>, err |-> "not run", posmap |-> EmptyDict, sizes |-> <<>>,
          chunks |-> <<>>]

Record(r) ==
    [err |-> r.err, o |-> r.o, own |-> r.own,
     evm |-> IF r.err = "" THEN assembly_to_evm(r.o) ELSE NoEvm,
     gas |-> 0, valency |-> 0]

St == [sym |-> next_symbol, D |-> default_withargs]

NoCall == [op |-> "none", code |-> S("pass"), withargs |-> EmptyDict,
           break_dest |-> None, height |-> 0, sym |-> 0, D |-> EmptyDict]
NoResult == [err |-> "not run", o |-> <<>>, own |-> EmptyDict, evm |-> NoEvm,
             gas |-> 0, valency |-> 0]

\* a thread outside mksymbol: the value it last read of next_symbol[0] and
\* the symbols its calls have returned
NumThreads == 2
MaxCalls == 2
Threads == 1..NumThreads
NoThread == [pc |-> "idle", tmp |-> 0, returned |-> <<>>]

Init ==
    /\ next_symbol = 0
    /\ default_withargs = EmptyDict
    /\ call = NoCall
    /\ result = NoResult
    /\ threads = [t \in Threads |-> NoThread]

\* assembly_to_evm(compile_to_assembly(code))
Compile(code) ==
    /\ call.op = "none"
    /\ next_symbol < MaxSymbols
    /\ LET r == compile_to_assembly(code, "default", EmptyDict, None, 0, St) IN
       /\ call' = [op |-> "compile", code |-> code, withargs |-> default_withargs,
                   break_dest |-> None, height |-> 0, sym |-> next_symbol,
                   D |-> default_withargs]
       /\ result' = Record(r)
       /\ next_symbol' = r.st.sym
       /\ default_withargs' = r.st.D
       /\ UNCHANGED threads

\* assembly_to_evm(compile_to_assembly(code, withargs, break_dest, height))
CompileWith(code, withargs, break_dest, height) ==
    /\ call.op = "none"
    /\ next_symbol < MaxSymbols
    /\ LET r == compile_to_assembly(code, "own", withargs, break_dest, height, St) IN
       /\ call' = [op |-> "compile_with", code |-> code, withargs |-> withargs,
                   break_dest |-> break_dest, height |-> height, sym |-> next_symbol,
                   D |-> default_withargs]
       /\ result' = Record(r)
       /\ next_symbol' = r.st.sym
       /\ default_withargs' = r.st.D
       /\ UNCHANGED threads

\* the caller is done with what the call returned or raised; the symbol
\* counter and the default dict stay as the call left them
Return ==
    /\ call.op # "none"
    /\ call' = NoCall
    /\ result' = NoResult
    /\ UNCHANGED <<next_symbol, default_withargs, threads>>

\* gas_estimate(code)
GasEstimate(code) ==
    /\ call.op = "none"
    /\ LET g == gas_estimate(code, 0) IN
       /\ call' = [NoCall EXCEPT !.op = "gas_estimate", !.code = code]
       /\ result' = [NoResult EXCEPT !.err = g.err, !.gas = g.o]
    /\ UNCHANGED <<next_symbol, default_withargs, threads>>

\* LLLnode.from_list(code)
Construct(code) ==
    /\ call.op = "none"
    /\ call' = [NoCall EXCEPT !.op = "from_list", !.code = code]
    /\ result' = [NoResult EXCEPT
                     !.err = IF valency(code) = Rejected THEN "Exception" ELSE "",
                     !.valency = valency(code)]
    /\ UNCHANGED <<next_symbol, default_withargs, threads>>

\* assembly_to_evm(assembly)
Assemble(assembly) ==
    /\ call.op = "none"
    /\ call' = [NoCall EXCEPT !.op = "assembly_to_evm"]
    /\ result' = [NoResult EXCEPT !.err = "", !.o = assembly,
                                  !.evm = assembly_to_evm(assembly)]
    /\ UNCHANGED <<next_symbol, default_withargs, threads>>

Next ==
    \/ Return
    \/ \E code \in GasTrees : GasEstimate(code)
    \/ \E code \in ConstructCandidates : Construct(code)
    \/ \E assembly \in RawAssemblies : Assemble(assembly)
    \/ \E code \in Trees : Compile(code)
    \/ \E code \in EnvTrees, height \in Heights :
         \E withargs \in Environments(height), break_dest \in BreakDests(height) :
            CompileWith(code, withargs, break_dest, height)

Spec == Init /\ [][Next]_vars

----------------------------------------------------------------------------
(* mksymbol called from several threads.  next_symbol[0] += 1 is a read of *)
(* the list item, an addition and a write of the item, and the return      *)
(* statement reads the item again; nothing in the module holds a lock, so  *)
(* the threads' steps interleave.                                          *)

\* a thread calls mksymbol
MksymbolCall(t) ==
    /\ threads[t].pc = "idle"
    /\ Len(threads[t].returned) < MaxCalls
    /\ threads' = [threads EXCEPT ![t].pc = "read"]
    /\ UNCHANGED <<next_symbol, default_withargs, call, result>>

\* next_symbol[0] += 1: the read
MksymbolRead(t) ==
    /\ threads[t].pc = "read"
    /\ threads' = [threads EXCEPT ![t].pc = "add", ![t].tmp = next_symbol]
    /\ UNCHANGED <<next_symbol, default_withargs, call, result>>

\* next_symbol[0] += 1: the addition
MksymbolAdd(t) ==
    /\ threads[t].pc = "add"
    /\ threads' = [threads EXCEPT ![t].pc = "write", ![t].tmp = @ + 1]
    /\ UNCHANGED <<next_symbol, default_withargs, call, result>>

\* next_symbol[0] += 1: the write
MksymbolWrite(t) ==
    /\ threads[t].pc = "write"
    /\ next_symbol' = threads[t].tmp
    /\ threads' = [threads EXCEPT ![t].pc = "return"]
    /\ UNCHANGED <<default_withargs, call, result>>

\* return '_sym_'+str(next_symbol[0])
MksymbolReturn(t) ==
    /\ threads[t].pc = "return"
    /\ threads' = [threads EXCEPT ![t].pc = "idle",
                                  ![t].returned = Append(@, Sym(next_symbol))]
    /\ UNCHANGED <<next_symbol, default_withargs, call, result>>

NextMksymbol ==
    \E t \in Threads :
       \/ MksymbolCall(t)
       \/ MksymbolRead(t)
       \/ MksymbolAdd(t)
       \/ MksymbolWrite(t)
       \/ MksymbolReturn(t)

SpecMksymbol == Init /\ [][NextMksymbol]_vars

----------------------------------------------------------------------------
(* Properties of the lowering and of the assembler *)

\* the words an item pushes less the words it pops; a symbol that is used
\* counts as one push, a symbol that is defined, BLANK, an inline byte and a
\* nested list as none
ItemEffect(assembly, i) ==
    LET item == assembly[i] IN
    IF is_symbol(item)
    THEN IF i < Len(assembly) /\ is_definition(assembly, i) THEN 0 ELSE 1
    ELSE IF item.k \in {"PUSH", "DUP"} THEN 1
    ELSE IF item.k \in DOMAIN opcodes THEN opcodes[item.k][3] - opcodes[item.k][2]
    ELSE 0

RECURSIVE EffectFrom(_, _)
EffectFrom(assembly, i) ==
    IF i > Len(assembly) THEN 0 ELSE ItemEffect(assembly, i) + EffectFrom(assembly, i + 1)

NetEffect(assembly) == EffectFrom(assembly, 1)

\* an assembly list and the lists nested in it, at any depth
RECURSIVE AllLists(_)
AllLists(assembly) ==
    {assembly} \cup UNION {AllLists(assembly[i].l) :
                             i \in {j \in 1..Len(assembly) : assembly[j].k = "list"}}

Uses(assembly) ==
    {i \in 1..Len(assembly) :
        is_symbol(assembly[i]) /\ ~(i < Len(assembly) /\ is_definition(assembly, i))}

Definitions(assembly) ==
    {i \in 1..Len(assembly) :
        is_symbol(assembly[i]) /\ i < Len(assembly) /\ is_definition(assembly, i)}

\* the number of bytes the items before item i put into o
RECURSIVE OffsetOf(_, _)
OffsetOf(chunks, i) == IF i <= 1 THEN 0 ELSE OffsetOf(chunks, i - 1) + Len(chunks[i - 1])

Called == call.op \in {"compile", "compile_with"}
Lowered == Called /\ result.err = ""
Assembled == Lowered /\ result.evm.err = ""

\* C1: the symbolic net stack effect of the assembly returned for a node N,
\* at any entry height, equals N.valency.
C1_ValencyPreserved ==
    Lowered => NetEffect(result.o) = valency(call.code)

\* one list of an assembly that assembly_to_evm accepted: both loops agree
\* item by item, labels lie on their JUMPDEST byte, uses push the label's offset
TwoPassAgree(assembly) ==
    LET e == assembly_to_evm(assembly) IN
    /\ e.err = ""
    /\ Len(e.sizes) = Len(assembly) /\ Len(e.chunks) = Len(assembly)
    /\ \A i \in 1..Len(assembly) :
          /\ e.sizes[i] = Len(e.chunks[i])
          /\ Len(e.chunks[i]) =
                IF i \in Uses(assembly) THEN 3
                ELSE IF i \in Definitions(assembly) \/ assembly[i].k = "BLANK" THEN 0
                ELSE IF assembly[i].k = "list" THEN Len(assembly_to_evm(assembly[i].l).o)
                ELSE 1
    /\ \A i \in Definitions(assembly) :
          assembly[i + 1].k = "JUMPDEST"
          /\ (\A j \in Definitions(assembly) : assembly[j].n = assembly[i].n => j <= i)
          => /\ e.posmap[assembly[i].n] = OffsetOf(e.chunks, i + 1)
             /\ e.o[e.posmap[assembly[i].n] + 1] = opcodes["JUMPDEST"][1]
    /\ \A i \in Uses(assembly) :
          /\ e.chunks[i][1] = PUSH_OFFSET + 2
          /\ e.chunks[i][2] * Radix + e.chunks[i][3] = e.posmap[assembly[i].n]

\* C2: in assembly_to_evm every item adds as many bytes in the layout pass as
\* in the emission pass (symbol use 3, symbol definition 0, BLANK 0, nested
\* list its assembled length, anything else 1), so a symbol defined before a
\* JUMPDEST is recorded at the index of that JUMPDEST byte in the output and
\* every symbol use is emitted as PUSH2 hi lo with hi*256 + lo that offset.
C2_TwoPassAgreement ==
    Assembled => \A a \in AllLists(result.o) : TwoPassAgree(a)

C2_Witness ==
    /\ Assembled
    /\ \E a \in AllLists(result.o) : a # result.o /\ Uses(a) # {} /\ Definitions(a) # {}
    /\ Uses(result.o) # {}
    /\ \E i \in Definitions(result.o) : result.o[i + 1].k = "JUMPDEST"

\* C3: in a tree that lowers, every symbol used as an operand is defined in
\* the same assembly list, nested lists included, so the offset lookup of
\* assembly_to_evm never fails.
C3_OffsetClosure ==
    Lowered =>
       /\ \A a \in AllLists(result.o) :
             \A i \in Uses(a) : \E j \in Definitions(a) : a[j].n = a[i].n
       /\ result.evm.err # "KeyError"

C3_Witness ==
    /\ Assembled
    /\ call.code.s = "lll"
    /\ \E a \in AllLists(result.o) : a # result.o /\ Uses(a) # {}
    /\ Cardinality({result.o[i].n : i \in Uses(result.o)}) >= 2

\* the definition sites of symbol n in an assembly, nested lists included
RECURSIVE DefinitionCount(_, _)
SumOver(f, n) ==
    LET RECURSIVE sum(_)
        sum(i) == IF i = 0 THEN 0 ELSE f[i] + sum(i - 1)
    IN  sum(n)
DefinitionCount(assembly, n) ==
    Cardinality({i \in Definitions(assembly) : assembly[i].n = n})
    + SumOver([i \in 1..Len(assembly) |->
                  IF assembly[i].k = "list" THEN DefinitionCount(assembly[i].l, n) ELSE 0],
              Len(assembly))

\* C4: in the assembly one compilation returns, flattened over its nested
\* lists, every symbol is followed by JUMPDEST or BLANK at most once.
C4_LabelUniqueness ==
    Lowered => \A n \in 0..next_symbol : DefinitionCount(result.o, n) <= 1

RECURSIVE Items(_)
Items(assembly) ==
    {assembly[i] : i \in 1..Len(assembly)}
    \cup UNION {Items(assembly[i].l) : i \in {j \in 1..Len(assembly) : assembly[j].k = "list"}}

IsLiteral == call.op = "compile" /\ call.code.t = "int"

\* the integers an assembly list holds from its second item on
Operand(o) == [i \in 1..(Len(o) - 1) |-> o[i + 1].n]

\* C6: for v in [0, 2**256) the literal v lowers to PUSHk and k integers in
\* 0..255, 1 <= k <= 32, whose big-endian value is v, without a leading zero
\* byte except that 0 is PUSH1 0.
C6_LiteralRoundTrip ==
    IsLiteral /\ ~call.code.v.neg /\ Less(call.code.v, Pow2_256) =>
       /\ result.err = ""
       /\ Len(result.o) >= 2
       /\ result.o[1] = Push(Len(result.o) - 1)
       /\ Len(result.o) - 1 \in 1..WordBytes
       /\ \A i \in 2..Len(result.o) : result.o[i].k = "int" /\ InByte(result.o[i].n)
       /\ PyInt(FALSE, Operand(result.o)) = call.code.v
       /\ IF call.code.v = PyNum(0) THEN result.o = <<Push(1), Byte(0)>>
          ELSE result.o[2].n # 0

C6_Witness ==
    /\ IsLiteral
    /\ call.code.v = PyInt(FALSE, [i \in 1..WordBytes |-> Radix - 1])
    /\ result.o[1] = Push(WordBytes)

\* the symbols of an assembly renamed by the symbol counter the call began with
RECURSIVE Renamed(_, _)
Renamed(assembly, base) ==
    [i \in 1..Len(assembly) |->
        IF is_symbol(assembly[i]) THEN Sym(assembly[i].n - base)
        ELSE IF assembly[i].k = "list" THEN List(Renamed(assembly[i].l, base))
        ELSE assembly[i]]

\* the call made first in a new process
Fresh(code) ==
    Record(compile_to_assembly(code, "default", EmptyDict, None, 0,
                               [sym |-> 0, D |-> EmptyDict]))

\* C7: compile_to_assembly with default arguments and assembly_to_evm give,
\* whatever was compiled before in the process and whether it returned or
\* raised, the assembly (up to the names of the symbols) and the bytecode
\* they give in a new process.
C7_Recompilation ==
    call.op = "compile" =>
       /\ result.err = Fresh(call.code).err
       /\ Renamed(result.o, call.sym) = Fresh(call.code).o
       /\ result.evm.err = Fresh(call.code).evm.err
       /\ result.evm.o = Fresh(call.code).evm.o

\* C8: every tree LLLnode construction accepts is lowered and assembled
\* without an exception.
C8_NoLoweringError ==
    call.op = "compile" => result.err = "" /\ result.evm.err = ""

\* C9: an integer literal v is lowered iff -2**255 <= v < 2**256, and a
\* negative v is then emitted as v mod 2**256.
C9_LiteralRange ==
    IsLiteral =>
       /\ result.err = "" <=> (LessEq(Neg(Pow2_255), call.code.v) /\ Less(call.code.v, Pow2_256))
       /\ result.err = "" /\ call.code.v.neg
             => PyInt(FALSE, Operand(result.o)) = Mod2_256(call.code.v)

IfOneSeq == StrNode("if", <<I(1), S("seq")>>)

\* C10 as stated: ['if', 1, ['seq']] compiles to the 9 bytes
\* 60 01 15 61 00 06 57 5b, the end symbol at offset 6, the JUMPDEST byte.
C10_AsStated ==
    call.op = "compile" /\ call.code = IfOneSeq =>
       /\ result.evm.err = ""
       /\ Len(result.evm.o) = 9
       /\ result.evm.o = <<96, 1, 21, 97, 0, 6, 87, 91>>
       /\ result.evm.posmap[call.sym + 1] = 6
       /\ result.evm.o[6 + 1] = 91

\* C10: ['if', 1, ['seq']] compiles to the 8 bytes 60 01 15 61 00 07 57 5b;
\* the end symbol resolves to offset 7, which is the position of the
\* JUMPDEST byte in the output.
C10_IfBytecode ==
    call.op = "compile" /\ call.code = IfOneSeq =>
       /\ result.evm.err = ""
       /\ Len(result.evm.o) = 8
       /\ result.evm.o = <<96, 1, 21, 97, 0, 7, 87, 91>>
       /\ result.evm.posmap[call.sym + 1] = 7
       /\ result.evm.o[7 + 1] = 91

C10_Witness ==
    call.op = "compile" /\ call.code = IfOneSeq /\ Assembled /\ call.sym > 0

WithAddXX ==
    StrNode("with", <<NameNode("x", 1), I(5), StrNode("add", <<S("x"), S("x")>>)>>)

\* C11: lowering ['with', 'x', 5, ['add', 'x', 'x']] succeeds and yields
\* PUSH1 5, DUP1, DUP2, ADD: each reference to the bound name in the body is
\* found in withargs and emits DUP(height - withargs[name]).
C11_WithBodySeesBinding ==
    call.op = "compile" /\ call.code = WithAddXX =>
       /\ result.err = ""
       /\ result.o = <<Push(1), Byte(5), Dup(1), Dup(2), Op("ADD")>>

RepeatPass == StrNode("repeat", <<I(0), I(0), I(3), S("pass")>>)

\* the items of assembly from the i-th on begin with prefix
StartsAt(assembly, i, prefix) ==
    /\ i + Len(prefix) - 1 <= Len(assembly)
    /\ \A j \in 1..Len(prefix) : assembly[i + j - 1] = prefix[j]

\* the shape S5 gives for the lowering of ['repeat', 0, 0, 3, ['pass']], in
\* the state the process is in
RepeatPassLowering ==
    LET r == compile_to_assembly(RepeatPass, "default", EmptyDict, None, 0, St)
        start == Sym(next_symbol + 1)
        end == Sym(next_symbol + 2)
        n == Len(r.o)
    IN  /\ r.err = ""
        /\ StartsAt(r.o, 1, <<Push(1), Byte(3)>>)
        /\ \E i \in 1..n :
              StartsAt(r.o, i, <<Push(1), Byte(0), Dup(2), Op("MSTORE"), start,
                                 Op("JUMPDEST"), Dup(1), Op("MLOAD")>>)
        /\ n >= 4
        /\ StartsAt(r.o, n - 3, <<end, Op("JUMPDEST"), Op("POP"), Op("POP")>>)

\* C12: ['repeat', 0, 0, 3, ['pass']] is accepted by construction, and its
\* lowering has PUSH1 3, the iteration count, before the prologue PUSH1 0,
\* DUP2, MSTORE, <start>, JUMPDEST, nothing for the body, and the epilogue
\* ending <end>, JUMPDEST, POP, POP.
C12_RepeatPass ==
    call.op = "from_list" /\ call.code = RepeatPass =>
       /\ result.err = ""
       /\ RepeatPassLowering

\* the calls of mksymbol whose write is done
Incremented(t) == Len(threads[t].returned) + (IF threads[t].pc = "return" THEN 1 ELSE 0)

\* C13: with mksymbol called from two threads, under every interleaving of
\* their read, add and write steps, no two calls return the same symbol and
\* no increment is lost.
C13_AtomicIncrement ==
    /\ \A t, u \in Threads :
          \A i \in 1..Len(threads[t].returned), j \in 1..Len(threads[u].returned) :
             threads[t].returned[i] = threads[u].returned[j] => t = u /\ i = j
    /\ next_symbol = SumOver([t \in Threads |-> Incremented(t)], NumThreads)

\* the dict the call was given as withargs, as the call found it and as it
\* left it
EnvBefore == IF call.op = "compile" THEN call.D ELSE call.withargs
EnvAfter == IF call.op = "compile" THEN default_withargs ELSE result.own

\* C14: but for the symbol counter no state is shared between calls: every
\* call with default arguments starts from an empty withargs, whatever the
\* calls before it did, returned or raised.
C14_NoSharedState ==
    /\ call.op = "compile" => call.D = EmptyDict
    /\ call.op = "none" => default_withargs = EmptyDict

\* C15: when lowering the init expression or the body of a with raises,
\* withargs is left as it was before the with was entered.
C15_WithErrorRestores ==
    Called /\ call.code.s = "with" /\ result.err # "" => EnvAfter = EnvBefore

\* C20: when compile_to_assembly returns from a with node, withargs has the
\* content it had on entry: a prior binding of the name is restored,
\* whatever its height, height 0 included, and a name not bound before is
\* removed.
C20_WithRestores ==
    Called /\ call.code.s = "with" /\ result.err = "" => EnvAfter = EnvBefore

\* the items the assembler is specified for
Enumerated(item) ==
    \/ is_symbol(item)
    \/ item.k \in {"BLANK", "list"}
    \/ item.k = "PUSH" /\ item.n \in 1..WordBytes
    \/ item.k \in {"DUP", "SWAP"} /\ item.n \in 1..MaxDup
    \/ item.k = "int" /\ InByte(item.n)
    \/ item.k \in DOMAIN opcodes

\* C16: assembly_to_evm raises for every item outside the enumerated set:
\* PUSHk with k outside 1..32, DUPk and SWAPk with k outside 1..16, an
\* integer outside 0..255, an unknown mnemonic.
C16_UnknownItemsRejected ==
    call.op = "assembly_to_evm"
       /\ (\E i \in 1..Len(result.o) : ~Enumerated(result.o[i]))
    => result.evm.err # ""

\* the estimate of a child of the node gas_estimate was called on
ChildGas(k) == gas_estimate(call.code.args[k], 1)

\* C17: gas_estimate of a with node of three children, name, init and body,
\* returns estimate(init) + estimate(body) + 20 and does not raise.
C17_WithGas ==
    call.op = "gas_estimate" /\ call.code.s = "with"
       /\ ChildGas(2).err = "" /\ ChildGas(3).err = ""
    => /\ result.err = ""
       /\ result.gas = ChildGas(2).o + ChildGas(3).o + 20

\* C18: gas_estimate of repeat <memloc> <start> <count> <body> returns
\* (estimate(body) + 50) * count + 30, which is not negative.
C18_RepeatGas ==
    call.op = "gas_estimate" /\ call.code.s = "repeat" /\ ChildGas(4).err = ""
    => /\ result.err = ""
       /\ result.gas = (ChildGas(4).o + 50) * Small(call.code.args[3].v) + 30
       /\ result.gas >= 0

\* the valencies of the children of the node from_list was called on
ChildValency(k) == valency(call.code.args[k])

\* C19: an if node is constructed exactly when it has 2 or 3 children, the
\* test has valency 1 and either (2 children) the body has valency 0 or
\* (3 children) both arms have the same valency; its valency is then 0 for
\* 2 children and the arms' valency for 3; every other if is rejected.
C19_IfConstruction ==
    call.op = "from_list" /\ call.code.s = "if" =>
       LET n == Len(call.code.args) IN
       /\ result.err = "" <=>
             /\ n \in {2, 3}
             /\ ChildValency(1) = 1
             /\ \/ n = 2 /\ ChildValency(2) = 0
                \/ n = 3 /\ ChildValency(2) = ChildValency(3)
       /\ result.err = "" =>
             result.valency = IF n = 2 THEN 0 ELSE ChildValency(2)

C19_Witness ==
    /\ call.op = "from_list" /\ call.code.s = "if"
    /\ Len(call.code.args) = 3
    /\ result.err = "" /\ result.valency = 1

\* C21: the word a with binds is on the stack for the duration of its body
\* only: the assembly of a with node removes it after the body, so the net
\* effect of the assembly is the valency of the body, not that plus one.
C21_WithPopsBinding ==
    Lowered /\ call.code.s = "with" =>
       NetEffect(result.o) = valency(call.code.args[3])

\* the list ['POP'] * n
Pops(n) == [i \in 1..n |-> Op("POP")]

\* C22: break with break_dest = (sym, break_height) at a height h >=
\* break_height lowers to h - break_height POP items, then sym, JUMP, and
\* raises no error.
C22_BreakPops ==
    Called /\ call.code = S("break") /\ call.break_dest.some
       /\ call.height >= call.break_dest.height
    => /\ result.err = ""
       /\ result.o = Pops(call.height - call.break_dest.height)
                        \o <<call.break_dest.dest, Op("JUMP")>>

\* an lll whose inner body, its first child, is a break
InnerBodyBreak(code) ==
    code.s = "lll" /\ Len(code.args) >= 1 /\ code.args[1] = S("break")

\* C23: break raises 'Invalid break' whenever no repeat encloses it in the
\* same code body: at top level, and as the inner body of an lll, whatever
\* break_dest the lll itself is lowered with, the one of an enclosing
\* repeat included: the first child of lll is lowered with an empty
\* withargs, no break_dest and height 0.
C23_BreakOutsideLoop ==
    /\ Called /\ call.code = S("break") /\ ~call.break_dest.some
          /\ StrKey("break") \notin DOMAIN EnvBefore
       => result.err = "Invalid break"
    /\ Called /\ InnerBodyBreak(call.code) => result.err = "Invalid break"
    /\ Called /\ call.code.s \in {"seq", "repeat"}
          /\ (\E k \in 1..Len(call.code.args) :
                 /\ InnerBodyBreak(call.code.args[k])
                 /\ \A j \in 1..(k - 1) : call.code.args[j].t = "int")
       => result.err = "Invalid break"

C23_Witness ==
    /\ call.op = "compile_with"
    /\ InnerBodyBreak(call.code)
    /\ call.break_dest.some
    /\ result.err = "Invalid break"
    /\ next_symbol = call.sym + 2

\* the lowering of the child the constructor validates as the body of the
\* repeat the call was made on, as the repeat case lowers a body: after the
\* two symbols of the loop and the start child, with break_dest =
\* (end, height + 1) and at height + 1
RepeatBodyLowering ==
    LET wref == IF call.op = "compile" THEN "default" ELSE "own"
        st0 == [sym |-> call.sym + 2, D |-> call.D]
        r1 == compile_to_assembly(call.code.args[2], "default", EmptyDict, None, 0, st0)
    IN  compile_to_assembly(call.code.args[4], wref, call.withargs,
                            BreakDest(Sym(call.sym + 2), call.height + 1),
                            call.height + 1, r1.st)

\* C24: the repeat lowering and the constructor agree on the children of
\* repeat <memloc> <start> <count> <body>: the literal pushed first is the
\* count the constructor validates, and the sub-tree lowered between the
\* loop head and the increment of the index is the body it validates.
C24_RepeatRoles ==
    Lowered /\ call.code.s = "repeat" /\ Len(call.code.args) = 4 =>
       /\ StartsAt(result.o, 1, literal_asm(call.code.args[3].v))
       /\ RepeatBodyLowering.err = ""
       /\ \E i \in 1..Len(result.o) :
             StartsAt(result.o, i,
                      <<Sym(call.sym + 1), Op("JUMPDEST")>> \o RepeatBodyLowering.o
                         \o <<Dup(1), Op("MLOAD")>>)

\* the number of items a child without children lowers to: a literal, a
\* bound name, or an empty seq
LeafLen(c) ==
    IF c.t = "int" THEN Len(literal_asm(c.v)) ELSE IF c = S("x") THEN 1 ELSE 0

\* where in the list returned for `code` the items of its k-th child begin,
\* the children being without children themselves
ChildStart(code, k) ==
    LET a == code.args IN
    IF upper(code.s) \in DOMAIN opcodes
    THEN 1 + SumOver([j \in 1..Len(a) |-> IF j > k THEN LeafLen(a[j]) ELSE 0], Len(a))
    ELSE IF code.s = "if" THEN (IF k = 1 THEN 1 ELSE LeafLen(a[1]) + 4)
    ELSE IF code.s = "with" THEN (IF k = 2 THEN 1 ELSE LeafLen(a[2]) + 1)
    ELSE IF code.s = "lll" THEN 12
    ELSE IF code.s = "clamp"
    THEN (IF k = 1 THEN 1 ELSE IF k = 2 THEN LeafLen(a[1]) + 1
          ELSE LeafLen(a[1]) + LeafLen(a[2]) + 2)
    ELSE 1 + SumOver([j \in 1..Len(a) |-> IF j < k THEN LeafLen(a[j]) ELSE 0], Len(a))

\* the children compile_to_assembly lowers with the caller's environment,
\* but for the else arm of an if, which is reached by a jump
LoweredChildren(code) ==
    IF code.s = "if" THEN {1, 2}
    ELSE IF code.s = "with" THEN {2, 3}
    ELSE IF code.s = "lll" THEN {2}
    ELSE 1..Len(code.args)

Prefix(assembly, i) == SubSeq(assembly, 1, i - 1)

\* C25: every child is lowered at the entry height plus the net number of
\* words the items emitted before it push, with the caller's withargs: a
\* bound name as a child lowers to DUP(that height - withargs[name]).  This
\* for the children of an opcode, if, seq, with, clamp and clamplt, the
\* destination of lll, and the start child of repeat.
C25_HeightsPassed ==
    /\ Lowered /\ call.op = "compile_with" /\ StrKey("x") \in DOMAIN call.withargs
          /\ call.code.s # "repeat"
       => \A k \in LoweredChildren(call.code) :
             call.code.args[k] = S("x") =>
                LET i == ChildStart(call.code, k) IN
                result.o[i] = Dup(call.height + NetEffect(Prefix(result.o, i))
                                     - call.withargs[StrKey("x")])
    /\ call.op = "compile_with" /\ StrKey("x") \in DOMAIN call.withargs
          /\ call.code.s = "repeat" /\ Len(call.code.args) = 4
          /\ call.code.args[1].t = "int" /\ call.code.args[2] = S("x")
          /\ call.code.args[4] = S("seq")
          /\ call.height + 1 - call.withargs[StrKey("x")] \in 1..MaxDup
       => /\ result.err = ""
          /\ result.o[LeafLen(call.code.args[1]) + 1]
                = Dup(call.height + 1 - call.withargs[StrKey("x")])

----------------------------------------------------------------------------
(* The stack machine the bytecode runs on, for the instructions a clamp on *)
(* literals is made of: PUSHk, DUPn, SWAPn, GT, LT, PC and JUMPI.  The top *)
(* of the stack is the last element; words are small enough here that no   *)
(* arithmetic wraps.                                                        *)

Machine(pc, stack, status) == [pc |-> pc, stack |-> stack, status |-> status]

Top(stack, n) == stack[Len(stack) + 1 - n]
Drop(stack, n) == SubSeq(stack, 1, Len(stack) - n)
Bool(b) == IF b THEN 1 ELSE 0

\* one instruction of bytecode `code` (its first byte is at address 0)
Step(code, m) ==
    LET op == code[m.pc + 1]
        need(n) == Len(m.stack) >= n
        fail == Machine(m.pc, m.stack, "abort")
    IN
    IF op > PUSH_OFFSET /\ op <= PUSH_OFFSET + WordBytes
    THEN LET k == op - PUSH_OFFSET IN
         IF m.pc + 1 + k > Len(code) THEN fail
         ELSE Machine(m.pc + 1 + k,
                      Append(m.stack, MagValue(SubSeq(code, m.pc + 2, m.pc + 1 + k))),
                      "run")
    ELSE IF op > DUP_OFFSET /\ op <= DUP_OFFSET + MaxDup
    THEN LET n == op - DUP_OFFSET IN
         IF ~need(n) THEN fail
         ELSE Machine(m.pc + 1, Append(m.stack, Top(m.stack, n)), "run")
    ELSE IF op > SWAP_OFFSET /\ op <= SWAP_OFFSET + MaxDup
    THEN LET n == op - SWAP_OFFSET
             len == Len(m.stack) IN
         IF ~need(n + 1) THEN fail
         ELSE Machine(m.pc + 1,
                      [m.stack EXCEPT ![len] = m.stack[len - n], ![len - n] = m.stack[len]],
                      "run")
    ELSE IF op = opcodes["GT"][1]
    THEN IF ~need(2) THEN fail
         ELSE Machine(m.pc + 1,
                      Append(Drop(m.stack, 2), Bool(Top(m.stack, 1) > Top(m.stack, 2))),
                      "run")
    ELSE IF op = opcodes["LT"][1]
    THEN IF ~need(2) THEN fail
         ELSE Machine(m.pc + 1,
                      Append(Drop(m.stack, 2), Bool(Top(m.stack, 1) < Top(m.stack, 2))),
                      "run")
    ELSE IF op = opcodes["PC"][1]
    THEN Machine(m.pc + 1, Append(m.stack, m.pc), "run")
    ELSE IF op = opcodes["JUMPI"][1]
    THEN IF ~need(2) THEN fail
         ELSE IF Top(m.stack, 2) = 0 THEN Machine(m.pc + 1, Drop(m.stack, 2), "run")
         ELSE IF Top(m.stack, 1) < Len(code)
                 /\ code[Top(m.stack, 1) + 1] = opcodes["JUMPDEST"][1]
         THEN Machine(Top(m.stack, 1), Drop(m.stack, 2), "run")
         ELSE Machine(m.pc, Drop(m.stack, 2), "abort")
    ELSE Machine(m.pc, m.stack, "unknown")

\* the machine run from m until it leaves the code, aborts, or has made
\* `fuel` steps
RECURSIVE Run(_, _, _)
Run(code, m, fuel) ==
    IF m.status # "run" THEN m
    ELSE IF m.pc >= Len(code) THEN Machine(m.pc, m.stack, "stop")
    ELSE IF fuel = 0 THEN Machine(m.pc, m.stack, "fuel")
    ELSE Run(code, Step(code, m), fuel - 1)

Execute(code) == Run(code, Machine(0, <<>>, "run"), Len(code))

\* the call lowered and assembled a clamp on non-negative literals
ClampOnLiterals ==
    /\ call.op = "compile" /\ call.code.s = "clamp" /\ Len(call.code.args) = 3
    /\ \A k \in 1..3 : call.code.args[k].t = "int" /\ ~call.code.args[k].v.neg
    /\ Assembled

\* C26: the bytecode of clamp lo a hi on non-negative literals, executed,
\* aborts by a taken JUMPI to the address of PC iff a < lo or a > hi, and
\* otherwise ends with the one word a on the stack.
C26_ClampAborts ==
    ClampOnLiterals =>
       LET lo == Small(call.code.args[1].v)
           a == Small(call.code.args[2].v)
           hi == Small(call.code.args[3].v)
           m == Execute(result.evm.o)
       IN  /\ m.status = "abort" <=> (a < lo \/ a > hi)
           /\ m.status # "abort" => m.status = "stop" /\ m.stack = <<a>>
====
